---- MODULE Spec2Model ----
(***************************************************************************)
(* A model of the VSDX structure extractor.                                *)
(*                                                                         *)
(* Two variants of the extractor live side by side in the repository:      *)
(*   - parse_vsdx_json.py, the module the command line imports ("main"),   *)
(*   - parse_vsdx_json(2)(1).py, a stand-alone script ("script").          *)
(* Their helpers differ (geometry fallback, classifier), so both are       *)
(* modelled; definitions of the main module carry the suffix _main where   *)
(* the two files use the same name.                                        *)
(*                                                                         *)
(* Strings are sequences of tokens: "ID:7" is <<"ID:", "7">>.  Every       *)
(* pattern the classifier looks for is one token, so `pattern in name` is  *)
(* membership of the token in the sequence, concatenation is \o and        *)
(* str.strip() removes the whitespace tokens at both ends.                 *)
(*                                                                         *)
(* An XML page is kept flat: page.shapes lists its v:Shape elements in     *)
(* document order, each with the index of the v:Shape that contains it     *)
(* (0: a direct child of the page's v:Shapes container).  Inside a shape   *)
(* element its own cells, text and connection points precede its nested    *)
(* v:Shapes container, the order Visio writes them in.                     *)
(***************************************************************************)
EXTENDS Integers, Sequences, FiniteSets, TLC

VARIABLES
    mode,                 \* which entry point this behaviour exercises
    pc,                   \* position inside the entry point
    doc,                  \* the container being read: [pages, masters]
    shape_texts,          \* id -> label, built by extract_shape_texts
    idx,                  \* analyze: 1-based index of the page being read
    connects,             \* analyze: edges of the page's Connects container
    connected_shape_ids,  \* analyze: ids named by those edges
    page_shapes,          \* analyze: the page's output nodes, in pre-order
    shape_id_map,         \* analyze: id -> index of the node in page_shapes
    pages_data,           \* analyze: the page records produced so far
    master_shape_cache,   \* module-level cache: master id -> geometry
    opens,                \* master id -> number of times its part was parsed
    name_reads,           \* master id -> times its part was parsed for a name
    calls,                \* number of helper calls made so far
    ret,                  \* what the last helper call returned
    json_file,            \* what is at the path of the output JSON
    called                \* main: the functions it has called, with results

vars == <<mode, pc, doc, shape_texts, idx, connects, connected_shape_ids,
          page_shapes, shape_id_map, pages_data, master_shape_cache, opens,
          name_reads, calls, ret, json_file, called>>

\* The variables only analyze writes, and those only the helper calls write.
analyzeVars == <<shape_texts, idx, connects, connected_shape_ids, page_shapes,
                 shape_id_map, pages_data>>

helperVars == <<name_reads, calls, ret>>

\* The variables only the command line and extract_vsdx_to_json write.
fileVars == <<json_file, called>>

-----------------------------------------------------------------------------
(* Python values *)

\* None: what Element.get returns for an attribute that is not there.
None == "<None>"

\* The unknown sentinel of a geometry field.
Unknown == "?"

\* Truthiness of an attribute value: None and '' are false.
Truthy(s) == s # None /\ s # ""

Range(f) == {f[i] : i \in DOMAIN f}

\* dict.get(key, default) on a dict kept as a function.
Get(d, key, default) == IF key \in DOMAIN d THEN d[key] ELSE default

\* d[key] = value on a dict kept as a function.
Put(d, key, value) ==
    [k \in DOMAIN d \cup {key} |-> IF k = key THEN value ELSE d[k]]

EmptyDict == [k \in {} |-> None]

\* str.strip() on a token string: whitespace tokens at both ends go.
RECURSIVE LStrip(_)
LStrip(s) == IF s # <<>> /\ Head(s) = " " THEN LStrip(Tail(s)) ELSE s

RECURSIVE RStrip(_)
RStrip(s) ==
    IF s # <<>> /\ s[Len(s)] = " " THEN RStrip(SubSeq(s, 1, Len(s) - 1)) ELSE s

Strip(s) == RStrip(LStrip(s))

\* f"ID:{sid}"
IdLabel(sid) == <<"ID:", sid>>

-----------------------------------------------------------------------------
(* The XML of a page, as ElementTree sees it *)

\* No v:Text child.
NoText == [present |-> FALSE, pieces |-> <<>>, kids |-> 0]

\* The indices, in document order, of the v:Shape elements directly inside
\* element i's v:Shapes container (i = 0: the page's own container).
ChildShapes(page, i) ==
    LET S == {j \in 1..Len(page.shapes) : page.shapes[j].parent = i}
        RECURSIVE Sorted(_, _)
        Sorted(T, acc) ==
            IF T = {} THEN acc
            ELSE LET m == CHOOSE x \in T : \A y \in T : x <= y
                 IN  Sorted(T \ {m}, Append(acc, m))
    IN  Sorted(S, <<>>)

\* Whether j is a proper descendant of v:Shape element i.
RECURSIVE IsDescendant(_, _, _)
IsDescendant(page, i, j) ==
    /\ j > i
    /\ LET p == page.shapes[j].parent
       IN  p = i \/ (p > i /\ IsDescendant(page, i, p))

\* shape_elem and the v:Shape elements below it, in document order.
Subtree(page, i) ==
    SelectSeq([k \in 1..Len(page.shapes) |-> k],
              LAMBDA j : j = i \/ IsDescendant(page, i, j))

\* shape_elem.find('v:Shapes'): element i has a v:Shapes child.
HasShapesElem(page, i) ==
    page.shapes[i].container \/ ChildShapes(page, i) # <<>>

\* shape_elem.find('.//v:Text'): the first v:Text below element i, its own
\* or, failing that, the first one of a nested shape; NoText if none.
FindText(page, i) ==
    LET withText == SelectSeq(Subtree(page, i),
                              LAMBDA j : page.shapes[j].text.present)
    IN  IF withText = <<>> THEN NoText ELSE page.shapes[Head(withText)].text

\* shape_elem.findall('.//v:Cell'): the cells below element i, nested
\* shapes' cells included, in document order.
RECURSIVE ConcatCells(_, _)
ConcatCells(page, js) ==
    IF js = <<>> THEN <<>>
    ELSE page.shapes[Head(js)].cells \o ConcatCells(page, Tail(js))

FindAllCells(page, i) == ConcatCells(page, Subtree(page, i))

\* len(shape_elem.findall('.//v:ConnectionPoint'))
RECURSIVE SumCps(_, _)
SumCps(page, js) ==
    IF js = <<>> THEN 0
    ELSE page.shapes[Head(js)].cps + SumCps(page, Tail(js))

CountConnectionPoints(page, i) == SumCps(page, Subtree(page, i))

\* shape_elem.findall('.//v:Connect'): Connect elements declared inside
\* element i or a nested shape.
RECURSIVE ConcatConnects(_, _)
ConcatConnects(page, js) ==
    IF js = <<>> THEN <<>>
    ELSE page.shapes[Head(js)].connects \o ConcatConnects(page, Tail(js))

FindAllConnects(page, i) == ConcatConnects(page, Subtree(page, i))

\* bool(element): an Element is true when it has child elements
\* (len(element) != 0), whatever its text.
ElementTruth(nChildElements) == nChildElements # 0

-----------------------------------------------------------------------------
(* extract_shape_texts: the id -> label index *)

\* ''.join(text_elem.itertext()).strip() if text_elem is not None else ''
TextOf(page, i) ==
    LET text_elem == FindText(page, i)
    IN  IF text_elem.present THEN Strip(text_elem.pieces) ELSE <<>>

\* text if text else shape.get('NameU', f"ID:{sid}")
LabelOf(page, i) ==
    LET shape == page.shapes[i]
        text  == TextOf(page, i)
    IN  IF text # <<>> THEN text
        ELSE IF shape.NameU # <<None>> THEN shape.NameU
        ELSE IdLabel(shape.ID)

\* The inner loop: every v:Shape of one page, in document order, writes its
\* label under its id; a later shape with the same id overwrites.
RECURSIVE IndexPage(_, _, _)
IndexPage(page, i, texts) ==
    IF i > Len(page.shapes) THEN texts
    ELSE IndexPage(page, i + 1,
                   Put(texts, page.shapes[i].ID, LabelOf(page, i)))

\* The outer loop: one flat mapping over all page parts.
RECURSIVE IndexPages(_, _, _)
IndexPages(pages, k, texts) ==
    IF k > Len(pages) THEN texts
    ELSE IndexPages(pages, k + 1, IndexPage(pages[k], 1, texts))

extract_shape_texts(d) == IndexPages(d.pages, 1, EmptyDict)

-----------------------------------------------------------------------------
(* is_core_component *)

ExcludedTypes == {"Guide", "ThemeShape", "Documentation", "Annotation"}

\* A pattern list without the copyright mark and the manufacturer name.
exclude_patterns_noLegal ==
    {"ID:", "Frame", "Border", "Sheet", "Title", "Page", "Background",
     "0-45", "Tel.", "Format", "Blatt", "Scale"}

exclude_patterns ==
    {"ID:", "©", "VOLKSWAGEN", "Frame", "Border", "Sheet", "Title", "Page",
     "Background", "0-45", "Tel.", "Format", "Blatt", "Scale"}

\* any(pattern in name for pattern in exclude_patterns)
MatchesExcludePattern(name) == \E k \in DOMAIN name : name[k] \in exclude_patterns

\* shape_elem.get('Type', default)
TypeOf(shape, default) == IF shape.Type = None THEN default ELSE shape.Type

\* float(s), in hundredths; ok = FALSE stands for ValueError.
FloatOf(s) ==
    CASE s = "0"    -> [ok |-> TRUE, val |-> 0]
      [] s = "0.01" -> [ok |-> TRUE, val |-> 1]
      [] s = "0.05" -> [ok |-> TRUE, val |-> 5]
      [] s = "0.1"  -> [ok |-> TRUE, val |-> 10]
      [] s = "1"    -> [ok |-> TRUE, val |-> 100]
      [] s = "2"    -> [ok |-> TRUE, val |-> 200]
      [] s = "5"    -> [ok |-> TRUE, val |-> 500]
      [] s = "7"    -> [ok |-> TRUE, val |-> 700]
      [] s = "8"    -> [ok |-> TRUE, val |-> 800]
      [] s = "10"   -> [ok |-> TRUE, val |-> 1000]
      [] s = "20"   -> [ok |-> TRUE, val |-> 2000]
      [] OTHER      -> [ok |-> FALSE, val |-> 0]

GeometryCells == {"PinX", "PinY", "Width", "Height"}

\* The classifier's cells dict: float(cell.get('V', '0')) under the cell's
\* name for the four geometry cells; a value float() rejects is skipped.
RECURSIVE FloatCells(_, _)
FloatCells(cells, acc) ==
    IF cells = <<>> THEN acc
    ELSE LET cell == Head(cells)
             f    == FloatOf(IF cell.V = None THEN "0" ELSE cell.V)
         IN  FloatCells(Tail(cells),
                        IF cell.N \in GeometryCells /\ f.ok
                        THEN Put(acc, cell.N, f.val) ELSE acc)

\* The thresholds of has_valid_geometry, in hundredths.
MinSize == 5
MinPin == 10

has_valid_geometry(page, i) ==
    LET cells == FloatCells(FindAllCells(page, i), EmptyDict)
    IN  /\ Get(cells, "Width", 0) > MinSize
        /\ Get(cells, "Height", 0) > MinSize
        /\ Get(cells, "PinX", 0) > MinPin
        /\ Get(cells, "PinY", 0) > MinPin

has_connection_points(page, i) == CountConnectionPoints(page, i) # 0

\* bool(shape_elem.find('v:Shapes'))
has_children(page, i) ==
    HasShapesElem(page, i) /\ ElementTruth(Len(ChildShapes(page, i)))

\* bool(shape_elem.find('.//v:Text'))
has_text(page, i) ==
    LET text_elem == FindText(page, i)
    IN  text_elem.present /\ ElementTruth(text_elem.kids)

\* The script's classifier: size is computed and not used.
is_core_component(page, i, texts) ==
    LET shape      == page.shapes[i]
        name       == Get(texts, shape.ID, <<>>)
        shape_type == TypeOf(shape, "")
    IN  IF shape_type \in ExcludedTypes THEN FALSE
        ELSE IF shape_type = "Dynamic Connector" THEN TRUE
        ELSE IF MatchesExcludePattern(name) THEN FALSE
        ELSE IF shape_type = "Group" THEN has_children(page, i)
        ELSE has_connection_points(page, i) \/ has_text(page, i)

\* The main module's classifier: no Dynamic Connector rule, and size decides.
is_core_component_main(page, i, texts) ==
    LET shape      == page.shapes[i]
        name       == Get(texts, shape.ID, <<>>)
        shape_type == TypeOf(shape, "")
    IN  IF shape_type \in ExcludedTypes THEN FALSE
        ELSE IF MatchesExcludePattern(name) THEN FALSE
        ELSE IF shape_type = "Group"
             THEN has_valid_geometry(page, i) /\ has_children(page, i)
        ELSE has_valid_geometry(page, i)
             /\ (has_connection_points(page, i) \/ has_text(page, i))

-----------------------------------------------------------------------------
(* Geometry, with the fallback to the master *)

\* The string cells dict of the geometry readers: cell.get('V', '?') under
\* the cell's name, for the names the reader recognises; last one wins.
RECURSIVE StringCells(_, _, _)
StringCells(cells, names, acc) ==
    IF cells = <<>> THEN acc
    ELSE LET cell == Head(cells)
         IN  StringCells(Tail(cells), names,
                         IF cell.N \in names
                         THEN Put(acc, cell.N,
                                  IF cell.V = None THEN Unknown ELSE cell.V)
                         ELSE acc)

UnknownGeometry ==
    [x |-> Unknown, y |-> Unknown, width |-> Unknown, height |-> Unknown]

\* The four positional fields read from a cells dict.
GeometryFrom(cells) ==
    [x      |-> Get(cells, "PinX", Unknown),
     y      |-> Get(cells, "PinY", Unknown),
     width  |-> Get(cells, "Width", Unknown),
     height |-> Get(cells, "Height", Unknown)]

\* What parsing a present master part yields: the geometry of its first
\* v:Shape when that defines both PinX and PinY, and whether that is so.
MasterPartGeometry(part) ==
    IF part.shapes = <<>> THEN [found |-> FALSE, geometry |-> UnknownGeometry]
    ELSE LET cells == StringCells(FindAllCells(part, 1), GeometryCells,
                                  EmptyDict)
         IN  IF "PinX" \in DOMAIN cells /\ "PinY" \in DOMAIN cells
             THEN [found |-> TRUE, geometry |-> GeometryFrom(cells)]
             ELSE [found |-> FALSE, geometry |-> UnknownGeometry]

\* The memory a master lookup reads and writes: the module-level cache and,
\* as instrumentation, how often each master part has been opened and parsed.
Count(m, o) == Get(o, m, 0)

\* load_master_geometry(zf, master_id), the same in both files.  The cache
\* is filled only when the part's shape defines PinX and PinY.
load_master_geometry(masters, master_id, cache, o) ==
    IF master_id \notin DOMAIN masters
    THEN [geometry |-> UnknownGeometry, cache |-> cache, opens |-> o]
    ELSE IF master_id \in DOMAIN cache
    THEN [geometry |-> cache[master_id], cache |-> cache, opens |-> o]
    ELSE LET parsed == MasterPartGeometry(masters[master_id])
             o2     == Put(o, master_id, Count(master_id, o) + 1)
         IN  IF parsed.found
             THEN [geometry |-> parsed.geometry,
                   cache    |-> Put(cache, master_id, parsed.geometry),
                   opens    |-> o2]
             ELSE [geometry |-> UnknownGeometry, cache |-> cache,
                   opens |-> o2]

\* get_shape_geometry(shape_elem, zf) of the script: the shape's own four
\* fields when it has both PinX and PinY, else the master's geometry whole.
get_shape_geometry(page, i, masters, cache, o) ==
    LET cells     == StringCells(FindAllCells(page, i), GeometryCells,
                                 EmptyDict)
        master_id == page.shapes[i].Master
    IN  IF "PinX" \in DOMAIN cells /\ "PinY" \in DOMAIN cells
        THEN [geometry |-> GeometryFrom(cells), cache |-> cache, opens |-> o]
        ELSE IF Truthy(master_id)
        THEN load_master_geometry(masters, master_id, cache, o)
        ELSE [geometry |-> UnknownGeometry, cache |-> cache, opens |-> o]

GeometryCells_main ==
    GeometryCells \cup {"Angle", "FlipX", "FlipY", "ResizeMode"}

PositionKeys == {"x", "y", "width", "height"}

\* The merge loop of extract_shape_geometry: a key of the master geometry is
\* copied when the shape's value for it is '?'.
MergeMaster(geometry, master_geometry) ==
    [key \in DOMAIN geometry |->
        IF key \in PositionKeys /\ geometry[key] = Unknown
        THEN master_geometry[key] ELSE geometry[key]]

\* extract_shape_geometry(shape_elem, zf) of the main module (the custom
\* outline, path_data, is left out: no field of it is read again).
extract_shape_geometry(page, i, masters, cache, o) ==
    LET cells     == StringCells(FindAllCells(page, i), GeometryCells_main,
                                 EmptyDict)
        geometry  == [x      |-> Get(cells, "PinX", Unknown),
                      y      |-> Get(cells, "PinY", Unknown),
                      width  |-> Get(cells, "Width", Unknown),
                      height |-> Get(cells, "Height", Unknown),
                      angle  |-> Get(cells, "Angle", "0"),
                      flip_x |-> Get(cells, "FlipX", "0"),
                      flip_y |-> Get(cells, "FlipY", "0")]
        master_id == page.shapes[i].Master
    IN  IF (geometry.x = Unknown \/ geometry.y = Unknown) /\ Truthy(master_id)
        THEN LET m == load_master_geometry(masters, master_id, cache, o)
             IN  [geometry |-> MergeMaster(geometry, m.geometry),
                  cache |-> m.cache, opens |-> m.opens]
        ELSE [geometry |-> geometry, cache |-> cache, opens |-> o]

-----------------------------------------------------------------------------
(* The script's tree builder and page assembler *)

\* extract_connections(shape_elem): one edge per Connect element found
\* inside the shape, with the four attributes as they are.
extract_connections(page, i) == FindAllConnects(page, i)

\* parse_shape_recursive(shape_elem, shape_texts, zf): the node of element i
\* followed by the nodes of the shapes nested in it, in pre-order.  A node
\* records its parent's position in the list (0: top level) and, for the
\* properties below, the element it was built from.  acc threads the node
\* list, the master cache and the count of parsed master parts.
RECURSIVE parse_shape_recursive(_, _, _, _, _, _)
RECURSIVE ParseChildren(_, _, _, _, _, _)
parse_shape_recursive(page, i, parentNode, texts, masters, acc) ==
    LET shape == page.shapes[i]
        sid   == shape.ID
        g     == get_shape_geometry(page, i, masters, acc.cache, acc.opens)
        node  == [elem        |-> i,
                  parent      |-> parentNode,
                  id          |-> sid,
                  name        |-> Get(texts, sid, IdLabel(sid)),
                  type        |-> TypeOf(shape, "N/A"),
                  position    |-> g.geometry,
                  connections |-> extract_connections(page, i)]
        acc1  == [nodes |-> Append(acc.nodes, node),
                  cache |-> g.cache, opens |-> g.opens]
    IN  IF HasShapesElem(page, i)
        THEN ParseChildren(page, ChildShapes(page, i), Len(acc1.nodes),
                           texts, masters, acc1)
        ELSE acc1

\* A tree builder that asked the classifier about nested shapes too.
RECURSIVE ParseChildren_coreOnly(_, _, _, _, _, _)
ParseChildren_coreOnly(page, js, parentNode, texts, masters, acc) ==
    IF js = <<>> THEN acc
    ELSE ParseChildren_coreOnly(page, Tail(js), parentNode, texts, masters,
             IF is_core_component(page, Head(js), texts)
             THEN parse_shape_recursive(page, Head(js), parentNode, texts,
                                        masters, acc)
             ELSE acc)

\* The loop over shapes_container.findall('v:Shape'): every nested shape is
\* parsed, in document order.
ParseChildren(page, js, parentNode, texts, masters, acc) ==
    IF js = <<>> THEN acc
    ELSE ParseChildren(page, Tail(js), parentNode, texts, masters,
                       parse_shape_recursive(page, Head(js), parentNode,
                                             texts, masters, acc))

\* root.find('.//v:Connects'): the first Connects container of the page in
\* document order, one wrapped inside a shape before the page's own.
ConnectsRoot(page) ==
    LET wrapped == SelectSeq([k \in 1..Len(page.shapes) |-> k],
                             LAMBDA j : page.shapes[j].wrapped)
    IN  IF wrapped # <<>> THEN page.shapes[Head(wrapped)].connects
        ELSE page.connects

\* The ids the edges of a Connects container name (truthy ones only).
EndpointIds(cs) ==
    {c.from_shape : c \in {x \in Range(cs) : Truthy(x.from_shape)}}
    \cup {c.to_shape : c \in {x \in Range(cs) : Truthy(x.to_shape)}}

\* is_core_with_connections(shape_elem): an id among the connected ids is
\* kept, any other shape goes to the classifier.
is_core_with_connections(page, i, texts, connected) ==
    \/ page.shapes[i].ID \in connected
    \/ is_core_component(page, i, texts)

\* A tree builder that looked for v:Shape at any depth ('.//v:Shape') in the
\* page loop.
TopLevelShapes_anyDepth(page) == [k \in 1..Len(page.shapes) |-> k]

\* shapes_root.findall('v:Shape'): the direct children of the page's
\* v:Shapes container.
TopLevelShapes(page) == ChildShapes(page, 0)

\* The loop over the page's top-level shapes: each one kept is parsed with
\* everything nested in it.
RECURSIVE BuildPageShapes(_, _, _, _, _, _)
BuildPageShapes(page, js, texts, connected, masters, acc) ==
    IF js = <<>> THEN acc
    ELSE BuildPageShapes(page, Tail(js), texts, connected, masters,
            IF is_core_with_connections(page, Head(js), texts, connected)
            THEN parse_shape_recursive(page, Head(js), 0, texts, masters, acc)
            ELSE acc)

\* add_shapes_to_map(page_shapes): every node under its id, visited in
\* pre-order; of two nodes with one id the later one stays.
RECURSIVE add_shapes_to_map(_, _, _)
add_shapes_to_map(nodes, k, map) ==
    IF k > Len(nodes) THEN map
    ELSE add_shapes_to_map(nodes, k + 1, Put(map, nodes[k].id, k))

\* An assembler that hangs each edge on the node of its to endpoint.
RECURSIVE AttachConnections_toEnd(_, _, _)
AttachConnections_toEnd(nodes, map, cs) ==
    IF cs = <<>> THEN nodes
    ELSE LET conn == Head(cs)
         IN  AttachConnections_toEnd(
                 IF conn.to_shape \in DOMAIN map
                 THEN [nodes EXCEPT ![map[conn.to_shape]].connections =
                                        Append(@, conn)]
                 ELSE nodes,
                 map, Tail(cs))

\* The loop over the page-level edges: an edge whose from id is in the map
\* is appended to that node's connections.
RECURSIVE AttachConnections(_, _, _)
AttachConnections(nodes, map, cs) ==
    IF cs = <<>> THEN nodes
    ELSE LET conn == Head(cs)
             from_shape == conn.from_shape
         IN  AttachConnections(
                 IF from_shape \in DOMAIN map
                 THEN [nodes EXCEPT ![map[from_shape]].connections =
                                        Append(@, conn)]
                 ELSE nodes,
                 map, Tail(cs))

\* root.get('ID', str(idx))
PageId(page, k) == IF page.ID = None THEN ToString(k) ELSE page.ID

-----------------------------------------------------------------------------
(* Input documents *)

\* Bounds of the documents explored.
MaxShapes == 2
MaxConnects == 1

IdPool == <<"1", "2", "3", "4", "5">>

\* An id no shape of a generated page carries.
AbsentId == "9"

LegalText == <<"©", "2020", " ", "VOLKSWAGEN", " ", "AG">>

Cell(n, v) == [N |-> n, V |-> v]

ValidCells ==
    <<Cell("PinX", "1"), Cell("PinY", "1"), Cell("Width", "1"),
      Cell("Height", "1")>>

\* The shapes pages are built from, one per way through the classifier:
\*   relay      a named shape with a connection point, geometry from master
\*   legal      the copyright block: text, connection point, own geometry
\*   group      a named group (kept when it has children)
\*   bare_group a group with neither text nor NameU (its label is ID:<id>)
\*   connector  a Dynamic Connector carrying the copyright text
\* A group holding a legal shape takes the legal text as its label, so the
\* generated pages need no bare_group to have a rejected group.
ShapeKinds == {"relay", "legal", "group", "connector"}

ShapeElem(parent, id, kind) ==
    [parent    |-> parent,
     ID        |-> id,
     Type      |-> CASE kind \in {"group", "bare_group"} -> "Group"
                     [] kind = "connector" -> "Dynamic Connector"
                     [] OTHER -> "Shape",
     NameU     |-> IF kind \in {"relay", "group"} THEN <<"Relay">>
                   ELSE <<None>>,
     Master    |-> IF kind = "relay" THEN "2" ELSE None,
     cells     |-> IF kind \in {"legal", "connector"} THEN ValidCells
                   ELSE <<>>,
     text      |-> IF kind \in {"legal", "connector"}
                   THEN [present |-> TRUE, pieces |-> LegalText, kids |-> 1]
                   ELSE NoText,
     cps       |-> IF kind \in {"relay", "legal"} THEN 1 ELSE 0,
     container |-> FALSE,
     connects  |-> <<>>,
     wrapped   |-> FALSE]

\* The master parts of the generated documents: master 2 defines the four
\* cells, master 3 only its size; neither part holds a v:Master element
\* (name: what root.find('.//v:Master') would give its Name as).
Masters ==
    [m \in {"2", "3"} |->
        [name   |-> None,
         shapes |-> <<[ShapeElem(0, "5", "group") EXCEPT
                         !.cells = IF m = "2"
                                   THEN <<Cell("PinX", "10"),
                                          Cell("PinY", "20"),
                                          Cell("Width", "1"),
                                          Cell("Height", "1")>>
                                   ELSE <<Cell("Width", "1"),
                                          Cell("Height", "1")>>]>>]]

\* A master id whose part the container does not hold.
AbsentMaster == "4"

\* Where the next element of a page may hang: at top level, inside the
\* element just written, or inside one of that element's ancestors.
RECURSIVE Ancestors(_, _)
Ancestors(shapes, i) ==
    IF i = 0 THEN {0} ELSE {i} \cup Ancestors(shapes, shapes[i].parent)

\* The ids the next element may carry: one already used on the page (a
\* duplicate) or the next unused one.
UsedIds(shapes) == {shapes[k].ID : k \in DOMAIN shapes}

NextIds(shapes) == UsedIds(shapes) \cup {IdPool[Cardinality(UsedIds(shapes)) + 1]}

\* All element lists of length n that are the document order of some tree.
RECURSIVE ShapeLists(_)
ShapeLists(n) ==
    IF n = 0 THEN {<<>>}
    ELSE UNION {{Append(s, ShapeElem(p, id, kind)) :
                    p \in Ancestors(s, Len(s)), id \in NextIds(s),
                    kind \in ShapeKinds} :
                s \in ShapeLists(n - 1)}

Edge(f, t) ==
    [from_shape |-> f, to_shape |-> t, from_cell |-> "BeginX",
     to_cell |-> "PinX"]

\* The ids an edge may name: two a page can use, and the absent one.
EdgeIds == {"1", "2", AbsentId}

RECURSIVE EdgeLists(_)
EdgeLists(n) ==
    IF n = 0 THEN {<<>>}
    ELSE UNION {{Append(cs, Edge(f, t)) : f \in EdgeIds, t \in EdgeIds} :
                cs \in EdgeLists(n - 1)}

\* The names of the parts of a container.
PagePart(k) == <<"visio/pages/page", ToString(k), ".xml">>

MasterPart(master_id) == <<"visio/masters/master", master_id, ".xml">>

\* A page part: the ID attribute of its root, its v:Shape elements, the
\* Connect elements of its own v:Connects, and the name it is listed under
\* (page1.xml unless said otherwise).
Page(id, shapes, cs) ==
    [ID |-> id, shapes |-> shapes, connects |-> cs, file |-> PagePart(1)]

\* One-page documents over the shapes above.
Documents ==
    {[pages |-> <<Page(None, shapes, cs)>>, masters |-> Masters] :
        shapes \in UNION {ShapeLists(n) : n \in 0..MaxShapes},
        cs \in UNION {EdgeLists(n) : n \in 0..MaxConnects}}

-----------------------------------------------------------------------------
(* analyze_vsdx_structure_with_geometry of the script, page by page *)

\* No helper has been called.
NoRet == [fn |-> "none"]

\* What can be at the path of the output JSON: nothing, a file with some
\* content, or a directory (open(output_json, "w") raises on it).
JsonFile(kind, content) == [kind |-> kind, content |-> content]

AbsentJson == JsonFile("absent", <<>>)

InitAnalyze ==
    /\ mode = "analyze"
    /\ pc = "start"
    /\ doc \in Documents
    /\ shape_texts = EmptyDict
    /\ idx = 0
    /\ connects = <<>>
    /\ connected_shape_ids = {}
    /\ page_shapes = <<>>
    /\ shape_id_map = EmptyDict
    /\ pages_data = <<>>
    /\ master_shape_cache = EmptyDict
    /\ opens = EmptyDict
    /\ name_reads = EmptyDict
    /\ calls = 0
    /\ ret = NoRet
    /\ json_file = AbsentJson
    /\ called = <<>>

\* The position after page k: the next page, or the end of the listing.
AfterPage(k) == IF k < Len(doc.pages) THEN "connects" ELSE "done"

\* shape_texts = extract_shape_texts(vsdx_path); pages_data = []
ExtractShapeTexts ==
    /\ mode = "analyze" /\ pc = "start"
    /\ shape_texts' = extract_shape_texts(doc)
    /\ idx' = 1
    /\ pc' = AfterPage(0)
    /\ UNCHANGED <<mode, doc, connects, connected_shape_ids, page_shapes,
                   shape_id_map, pages_data, master_shape_cache, opens,
                   helperVars>>
    /\ UNCHANGED fileVars

\* The page's Connects container is read first.
CollectConnects ==
    /\ mode = "analyze" /\ pc = "connects"
    /\ connects' = ConnectsRoot(doc.pages[idx])
    /\ connected_shape_ids' = EndpointIds(ConnectsRoot(doc.pages[idx]))
    /\ page_shapes' = <<>>
    /\ shape_id_map' = EmptyDict
    /\ pc' = "shapes"
    /\ UNCHANGED <<mode, doc, shape_texts, idx, pages_data,
                   master_shape_cache, opens, helperVars>>
    /\ UNCHANGED fileVars

\* The top-level shapes that pass is_core_with_connections are parsed.
BuildShapes ==
    /\ mode = "analyze" /\ pc = "shapes"
    /\ LET page  == doc.pages[idx]
           built == BuildPageShapes(page, TopLevelShapes(page), shape_texts,
                                    connected_shape_ids, doc.masters,
                                    [nodes |-> <<>>,
                                     cache |-> master_shape_cache,
                                     opens |-> opens])
       IN  /\ page_shapes' = built.nodes
           /\ master_shape_cache' = built.cache
           /\ opens' = built.opens
    /\ pc' = "assemble"
    /\ UNCHANGED <<mode, doc, shape_texts, idx, connects,
                   connected_shape_ids, shape_id_map, pages_data, helperVars>>
    /\ UNCHANGED fileVars

\* The nodes are indexed by id, the page-level edges attached, and the page
\* record appended when the page kept a shape.
AssemblePage ==
    /\ mode = "analyze" /\ pc = "assemble"
    /\ LET map   == add_shapes_to_map(page_shapes, 1, EmptyDict)
           nodes == AttachConnections(page_shapes, map, connects)
       IN  /\ shape_id_map' = map
           /\ page_shapes' = nodes
           /\ pages_data' =
                 IF nodes # <<>>
                 THEN Append(pages_data,
                             [page_index |-> idx,
                              page_id    |-> PageId(doc.pages[idx], idx),
                              page_file  |-> doc.pages[idx].file,
                              shapes     |-> nodes])
                 ELSE pages_data
    /\ idx' = idx + 1
    /\ pc' = AfterPage(idx)
    /\ UNCHANGED <<mode, doc, shape_texts, connects, connected_shape_ids,
                   master_shape_cache, opens, helperVars>>
    /\ UNCHANGED fileVars

Next == ExtractShapeTexts \/ CollectConnects \/ BuildShapes \/ AssemblePage

Spec == InitAnalyze /\ [][Next]_vars

-----------------------------------------------------------------------------
(* The group scenario: one page, a Group with two Shape children that have *)
(* connection points and no text, and one page-level edge between them     *)

FrameName == <<"Title", " ", "block">>

\* The group of the scenario: no text; NameU, geometry left open.
ScenarioGroups ==
    {[ShapeElem(0, "1", "bare_group") EXCEPT !.NameU = n, !.cells = c] :
        n \in {<<None>>, <<"Relay">>, FrameName}, c \in {<<>>, ValidCells}}

\* A child of the scenario: a Shape with connection points and no text.
ScenarioChildren(id) ==
    {[ShapeElem(1, id, "relay") EXCEPT
        !.NameU = n, !.cells = c, !.cps = k, !.Master = m] :
        n \in {<<None>>, <<"Relay">>}, c \in {<<>>, ValidCells},
        k \in {1, 2}, m \in {None, "2"}}

ScenarioDocuments ==
    {[pages |-> <<Page(pid, <<g, c1, c2>>, <<Edge("2", "3")>>)>>,
      masters |-> Masters] :
        pid \in {None, "0"}, g \in ScenarioGroups,
        c1 \in ScenarioChildren("2"), c2 \in ScenarioChildren("3")}

InitScenario ==
    /\ mode = "analyze"
    /\ pc = "start"
    /\ doc \in ScenarioDocuments
    /\ shape_texts = EmptyDict
    /\ idx = 0
    /\ connects = <<>>
    /\ connected_shape_ids = {}
    /\ page_shapes = <<>>
    /\ shape_id_map = EmptyDict
    /\ pages_data = <<>>
    /\ master_shape_cache = EmptyDict
    /\ opens = EmptyDict
    /\ name_reads = EmptyDict
    /\ calls = 0
    /\ ret = NoRet
    /\ json_file = AbsentJson
    /\ called = <<>>

SpecScenario == InitScenario /\ [][Next]_vars

-----------------------------------------------------------------------------
(* The main module's tree builder *)

\* The master name lookup of parse_shape_recursive: the master part, when
\* the container holds it, is opened and parsed on every call; the name is
\* that of its v:Master element, '' without one.
MasterName(masters, master_id) ==
    IF master_id \in DOMAIN masters /\ masters[master_id].name # None
    THEN masters[master_id].name ELSE ""

\* parse_shape_recursive(shape_elem, shape_texts, zf) of the main module
\* (properties, a pure reading of the cells, are left out).  acc threads the
\* node list, the master cache and the two counts of parsed master parts.
RECURSIVE parse_shape_recursive_main(_, _, _, _, _, _)
RECURSIVE ParseChildren_main(_, _, _, _, _, _)
parse_shape_recursive_main(page, i, parentNode, texts, masters, acc) ==
    LET shape     == page.shapes[i]
        sid       == shape.ID
        g         == extract_shape_geometry(page, i, masters, acc.cache,
                                            acc.opens)
        master_id == IF shape.Master = None THEN "" ELSE shape.Master
        reads     == IF master_id # "" /\ master_id \in DOMAIN masters
                     THEN Put(acc.reads, master_id,
                              Count(master_id, acc.reads) + 1)
                     ELSE acc.reads
        node      == [elem        |-> i,
                      parent      |-> parentNode,
                      id          |-> sid,
                      name        |-> Get(texts, sid, IdLabel(sid)),
                      type        |-> TypeOf(shape, "Shape"),
                      position    |-> g.geometry,
                      master_id   |-> master_id,
                      master_name |-> IF master_id # ""
                                      THEN MasterName(masters, master_id)
                                      ELSE "",
                      text        |-> TextOf(page, i),
                      connection_points |-> CountConnectionPoints(page, i)]
        acc1      == [nodes |-> Append(acc.nodes, node), cache |-> g.cache,
                      opens |-> g.opens, reads |-> reads]
    IN  IF HasShapesElem(page, i)
        THEN ParseChildren_main(page, ChildShapes(page, i), Len(acc1.nodes),
                                texts, masters, acc1)
        ELSE acc1

ParseChildren_main(page, js, parentNode, texts, masters, acc) ==
    IF js = <<>> THEN acc
    ELSE ParseChildren_main(page, Tail(js), parentNode, texts, masters,
                            parse_shape_recursive_main(page, Head(js),
                                                       parentNode, texts,
                                                       masters, acc))

-----------------------------------------------------------------------------
(* The geometry helpers called on one shape, in any order, within one      *)
(* extraction (the cache starts empty)                                     *)

\* Bound on the number of helper calls in one behaviour.
MaxCalls == 2

\* The own geometry cells a shape under test may carry: PinX and PinY
\* absent, with a value, or with no V attribute, PinX also with an empty V;
\* Width and Height absent or with a value.
OwnCellLists ==
    {SelectSeq(<<Cell("PinX", px), Cell("PinY", py), Cell("Width", w),
                 Cell("Height", h)>>, LAMBDA c : c.V # "absent") :
        px \in {"absent", "5", None, ""}, py \in {"absent", "5", None},
        w \in {"absent", "5"}, h \in {"absent", "5"}}

\* A nested shape with a position of its own.
NestedShape ==
    [ShapeElem(1, "2", "legal") EXCEPT
        !.cells = <<Cell("PinX", "7"), Cell("PinY", "8")>>]

GeometryDocuments ==
    {[pages |-> <<Page(None,
                       <<[ShapeElem(0, "1", "relay") EXCEPT
                            !.cells = c, !.Master = m]>> \o nested, <<>>)>>,
      masters |-> Masters] :
        c \in OwnCellLists, m \in {None, "2", "3", AbsentMaster},
        nested \in {<<>>, <<NestedShape>>}}

InitGeometry ==
    /\ mode = "geometry"
    /\ pc = "call"
    /\ doc \in GeometryDocuments
    /\ shape_texts = extract_shape_texts(doc)
    /\ idx = 1
    /\ connects = <<>>
    /\ connected_shape_ids = {}
    /\ page_shapes = <<>>
    /\ shape_id_map = EmptyDict
    /\ pages_data = <<>>
    /\ master_shape_cache = EmptyDict
    /\ opens = EmptyDict
    /\ name_reads = EmptyDict
    /\ calls = 0
    /\ ret = NoRet
    /\ json_file = AbsentJson
    /\ called = <<>>

CanCall == mode = "geometry" /\ pc = "call" /\ calls < MaxCalls

\* What a call on a shape hands back.
Returned(fn, master_id, geometry) ==
    [fn |-> fn, master |-> master_id, geometry |-> geometry]

\* get_shape_geometry(shape_elem, zf) on the shape under test.
CallGetShapeGeometry ==
    /\ CanCall
    /\ LET r == get_shape_geometry(doc.pages[1], 1, doc.masters,
                                   master_shape_cache, opens)
       IN  /\ ret' = Returned("get_shape_geometry",
                              doc.pages[1].shapes[1].Master, r.geometry)
           /\ master_shape_cache' = r.cache
           /\ opens' = r.opens
    /\ calls' = calls + 1
    /\ UNCHANGED <<mode, pc, doc, analyzeVars, name_reads>>
    /\ UNCHANGED fileVars

\* extract_shape_geometry(shape_elem, zf) on the shape under test.
CallExtractShapeGeometry ==
    /\ CanCall
    /\ LET r == extract_shape_geometry(doc.pages[1], 1, doc.masters,
                                       master_shape_cache, opens)
       IN  /\ ret' = Returned("extract_shape_geometry",
                              doc.pages[1].shapes[1].Master, r.geometry)
           /\ master_shape_cache' = r.cache
           /\ opens' = r.opens
    /\ calls' = calls + 1
    /\ UNCHANGED <<mode, pc, doc, analyzeVars, name_reads>>
    /\ UNCHANGED fileVars

\* load_master_geometry(zf, master_id) for some master id.
CallLoadMasterGeometry ==
    /\ CanCall
    /\ \E master_id \in DOMAIN doc.masters \cup {AbsentMaster} :
          LET r == load_master_geometry(doc.masters, master_id,
                                        master_shape_cache, opens)
          IN  /\ ret' = Returned("load_master_geometry", master_id,
                                 r.geometry)
              /\ master_shape_cache' = r.cache
              /\ opens' = r.opens
    /\ calls' = calls + 1
    /\ UNCHANGED <<mode, pc, doc, analyzeVars, name_reads>>
    /\ UNCHANGED fileVars

\* parse_shape_recursive of the main module on the shape under test.
CallParseShapeMain ==
    /\ CanCall
    /\ LET r == parse_shape_recursive_main(
                    doc.pages[1], 1, 0, shape_texts, doc.masters,
                    [nodes |-> <<>>, cache |-> master_shape_cache,
                     opens |-> opens, reads |-> name_reads])
       IN  /\ ret' = Returned("parse_shape_recursive",
                              doc.pages[1].shapes[1].Master,
                              r.nodes[1].position)
           /\ master_shape_cache' = r.cache
           /\ opens' = r.opens
           /\ name_reads' = r.reads
    /\ calls' = calls + 1
    /\ UNCHANGED <<mode, pc, doc, analyzeVars>>
    /\ UNCHANGED fileVars

NextGeometry ==
    \/ CallGetShapeGeometry
    \/ CallExtractShapeGeometry
    \/ CallLoadMasterGeometry
    \/ CallParseShapeMain

SpecGeometry == InitGeometry /\ [][NextGeometry]_vars

-----------------------------------------------------------------------------
(* The classifier called on two shapes that differ only in their geometry  *)
(* cells, one on each of two pages of a document                           *)

SmallCells ==
    <<Cell("PinX", "1"), Cell("PinY", "1"), Cell("Width", "0.01"),
      Cell("Height", "1")>>

CellVariants == {<<>>, ValidCells, SmallCells}

\* The v:Text children a shape under test may have: none; one with child
\* elements and no characters; the characters K1 without and with a child
\* element; white space only; the copyright line.
TextVariants ==
    {NoText,
     [present |-> TRUE, pieces |-> <<>>, kids |-> 1],
     [present |-> TRUE, pieces |-> <<"K1">>, kids |-> 0],
     [present |-> TRUE, pieces |-> <<"K1">>, kids |-> 1],
     [present |-> TRUE, pieces |-> <<" ">>, kids |-> 0],
     [present |-> TRUE, pieces |-> LegalText, kids |-> 1]}

\* What a shape under test may hold besides: nothing, an empty v:Shapes
\* container, or a container with one shape that has a connection point.
NestingVariants == {"none", "empty", "child"}

ClassifierShape(type, nameU, text, cps, nesting, cells) ==
    <<[ShapeElem(0, "1", "relay") EXCEPT
         !.Type = type, !.NameU = nameU, !.text = text, !.cps = cps,
         !.Master = None, !.cells = cells,
         !.container = (nesting = "empty")]>>
    \o (IF nesting = "child"
        THEN <<[ShapeElem(1, "2", "relay") EXCEPT !.Master = None]>>
        ELSE <<>>)

ClassifierDocuments ==
    {[pages |-> <<Page(None,
                       ClassifierShape(type, nameU, text, cps, nesting, a),
                       <<>>),
                   Page(None,
                        ClassifierShape(type, nameU, text, cps, nesting, b),
                        <<>>)>>,
      masters |-> Masters] :
        type \in {None, "Shape", "Group", "Dynamic Connector", "Guide"},
        nameU \in {<<None>>, <<"Relay">>, FrameName},
        text \in TextVariants, cps \in {0, 1}, nesting \in NestingVariants,
        a \in CellVariants, b \in CellVariants}

InitClassifier ==
    /\ mode = "classify"
    /\ pc = "call"
    /\ doc \in ClassifierDocuments
    /\ shape_texts = extract_shape_texts(doc)
    /\ idx = 1
    /\ connects = <<>>
    /\ connected_shape_ids = {}
    /\ page_shapes = <<>>
    /\ shape_id_map = EmptyDict
    /\ pages_data = <<>>
    /\ master_shape_cache = EmptyDict
    /\ opens = EmptyDict
    /\ name_reads = EmptyDict
    /\ calls = 0
    /\ ret = NoRet
    /\ json_file = AbsentJson
    /\ called = <<>>

\* What classifying the shape of page 1 and its twin on page 2 gives.
Verdicts(fn, v1, v2) == [fn |-> fn, verdicts |-> <<v1, v2>>]

\* is_core_component(shape_elem, shape_texts) of the script on both shapes.
ClassifyScript ==
    /\ mode = "classify" /\ pc = "call"
    /\ ret' = Verdicts("script",
                       is_core_component(doc.pages[1], 1, shape_texts),
                       is_core_component(doc.pages[2], 1, shape_texts))
    /\ calls' = calls + 1
    /\ pc' = "done"
    /\ UNCHANGED <<mode, doc, analyzeVars, master_shape_cache, opens,
                   name_reads>>
    /\ UNCHANGED fileVars

\* is_core_component(shape_elem, shape_texts) of the main module on both.
ClassifyMain ==
    /\ mode = "classify" /\ pc = "call"
    /\ ret' = Verdicts("main",
                       is_core_component_main(doc.pages[1], 1, shape_texts),
                       is_core_component_main(doc.pages[2], 1, shape_texts))
    /\ calls' = calls + 1
    /\ pc' = "done"
    /\ UNCHANGED <<mode, doc, analyzeVars, master_shape_cache, opens,
                   name_reads>>
    /\ UNCHANGED fileVars

NextClassifier == ClassifyScript \/ ClassifyMain

SpecClassifier == InitClassifier /\ [][NextClassifier]_vars

-----------------------------------------------------------------------------
(* Several extractions in one process: analyze_vsdx_structure_with_geometry *)
(* of the script as one call, the module-level cache living across calls   *)

\* The loop over the page parts: pages k.. of document d, with the text
\* index of the call; acc threads the page records, the master cache and the
\* count of parsed master parts.
RECURSIVE AnalyzePages(_, _, _, _)
AnalyzePages(d, k, texts, acc) ==
    IF k > Len(d.pages) THEN acc
    ELSE LET page  == d.pages[k]
             cs    == ConnectsRoot(page)
             built == BuildPageShapes(page, TopLevelShapes(page), texts,
                                      EndpointIds(cs), d.masters,
                                      [nodes |-> <<>>, cache |-> acc.cache,
                                       opens |-> acc.opens])
             map   == add_shapes_to_map(built.nodes, 1, EmptyDict)
             nodes == AttachConnections(built.nodes, map, cs)
         IN  AnalyzePages(d, k + 1, texts,
                 [pages_data |->
                      IF nodes # <<>>
                      THEN Append(acc.pages_data,
                                  [page_index |-> k,
                                   page_id    |-> PageId(page, k),
                                   page_file  |-> page.file,
                                   shapes     |-> nodes])
                      ELSE acc.pages_data,
                  cache |-> built.cache,
                  opens |-> built.opens])

\* analyze_vsdx_structure_with_geometry(vsdx_path) on document d, entered
\* with the module's master cache as it stands.
analyze_vsdx_structure_with_geometry(d, cache, o) ==
    AnalyzePages(d, 1, extract_shape_texts(d),
                 [pages_data |-> <<>>, cache |-> cache, opens |-> o])

\* Bound on the number of documents extracted by one process.
MaxExtractions == 2

\* Master parts with the ids of Masters and another geometry for master 2.
MovedMasters ==
    [Masters EXCEPT !["2"].shapes[1].cells =
        <<Cell("PinX", "1"), Cell("PinY", "2"), Cell("Width", "5"),
          Cell("Height", "5")>>]

\* The documents of a session: one page with one kept shape, which has its
\* own geometry or not and names master 2, master 3 or none; master 2 is
\* the one of Masters or the moved one.
SessionDocuments ==
    {[pages |-> <<Page(None,
                       <<[ShapeElem(0, "1", "relay") EXCEPT
                            !.cells = c, !.Master = m]>>, <<>>)>>,
      masters |-> ms] :
        c \in {<<>>, ValidCells}, m \in {None, "2", "3"},
        ms \in {Masters, MovedMasters}}

\* The documents a process extracts, in order.
Sessions == UNION {[1..n -> SessionDocuments] : n \in 1..MaxExtractions}

InitSession ==
    /\ mode = "session"
    /\ pc = "call"
    /\ \E files \in Sessions :
          /\ doc = files[1]
          /\ ret = [fn |-> "analyze_vsdx_structure_with_geometry",
                    files |-> files, results |-> <<>>]
    /\ shape_texts = EmptyDict
    /\ idx = 0
    /\ connects = <<>>
    /\ connected_shape_ids = {}
    /\ page_shapes = <<>>
    /\ shape_id_map = EmptyDict
    /\ pages_data = <<>>
    /\ master_shape_cache = EmptyDict
    /\ opens = EmptyDict
    /\ name_reads = EmptyDict
    /\ calls = 0
    /\ json_file = AbsentJson
    /\ called = <<>>

\* One call of analyze_vsdx_structure_with_geometry, on the next document;
\* its locals start afresh, master_shape_cache is the module's.
CallAnalyze ==
    /\ mode = "session" /\ pc = "call"
    /\ calls < Len(ret.files)
    /\ \E r \in {analyze_vsdx_structure_with_geometry(
                      doc, master_shape_cache, opens)} :
          /\ pages_data' = r.pages_data
          /\ master_shape_cache' = r.cache
          /\ opens' = r.opens
          /\ ret' = [ret EXCEPT !.results = Append(@, r.pages_data)]
    /\ shape_texts' = extract_shape_texts(doc)
    /\ calls' = calls + 1
    /\ doc' = IF calls + 1 < Len(ret.files) THEN ret.files[calls + 2] ELSE doc
    /\ pc' = IF calls + 1 < Len(ret.files) THEN "call" ELSE "done"
    /\ UNCHANGED <<mode, idx, connects, connected_shape_ids, page_shapes,
                   shape_id_map, name_reads>>
    /\ UNCHANGED fileVars

NextSession == CallAnalyze

SpecSession == InitSession /\ [][NextSession]_vars

-----------------------------------------------------------------------------
(* The boundary: extract_vsdx_to_json(vsdx_file, output_json), with the    *)
(* analysis it calls taken from the script                                 *)

\* What is at a path: nothing (exists = FALSE), a file that is no zip
\* archive (archive = FALSE), or a container whose parts in malformed hold
\* XML that ElementTree cannot parse.
File(exists, archive, pages, masters, malformed) ==
    [exists |-> exists, archive |-> archive, pages |-> pages,
     masters |-> masters, malformed |-> malformed]

AbsentFile == File(FALSE, FALSE, <<>>, EmptyDict, {})

NotAnArchive == File(TRUE, FALSE, <<>>, EmptyDict, {})

\* The shapes of the one page of a container at the boundary: none, or one
\* top-level shape that the classifier keeps (relay) or rejects (legal, a
\* childless group), with geometry of its own or not, naming a master or not.
BoundaryShapeLists ==
    {<<>>} \cup
    {<<[ShapeElem(0, "1", kind) EXCEPT !.cells = c, !.Master = m]>> :
        kind \in {"relay", "legal", "group"}, c \in {<<>>, ValidCells},
        m \in {None, "2", "3"}}

BoundaryFiles ==
    {AbsentFile, NotAnArchive} \cup
    {File(TRUE, TRUE, <<Page(None, shapes, <<>>)>>, Masters, bad) :
        shapes \in BoundaryShapeLists,
        bad \in SUBSET {PagePart(1), MasterPart("2"), MasterPart("3")}}

\* The exception, if any, that analyze_vsdx_structure_with_geometry raises
\* on a file that exists: BadZipFile from zipfile.ZipFile, ParseError from
\* ET.parse of a page part (extract_shape_texts parses every page part
\* first) or of a master part that load_master_geometry opens.
RaisedByAnalyze(file, r) ==
    IF ~file.archive THEN "BadZipFile"
    ELSE IF \E k \in DOMAIN file.pages : file.pages[k].file \in file.malformed
    THEN "ParseError"
    ELSE IF \E m \in DOMAIN r.opens :
                r.opens[m] > 0 /\ MasterPart(m) \in file.malformed
    THEN "ParseError"
    ELSE None

\* str(e) of the exceptions, as far as the kind of failure shows in it (the
\* messages the code prints in Chinese are given in English).
MessageOf(exception) ==
    CASE exception = "FileNotFoundError" -> "VSDX file not found"
      [] exception = "BadZipFile"        -> "File is not a zip file"
      [] exception = "ParseError"        -> "not well-formed"
      [] exception = "IsADirectoryError" -> "Is a directory"

\* What a call of extract_vsdx_to_json leaves behind: the value returned,
\* what is at the path of the output JSON after it, and the line printed
\* last.
Outcome(returned, json, printed) ==
    [fn |-> "extract_vsdx_to_json", returned |-> returned,
     json |-> json, printed |-> printed]

\* The except branch: every exception is printed and turned into False;
\* output is what the path of the JSON held when the exception came.
Caught(exception, output) ==
    Outcome(FALSE, output, <<"error:", MessageOf(exception)>>)

\* An extraction that opened and dumped the JSON before looking whether the
\* result is empty.
extract_vsdx_to_json_dumpFirst(file, output, r) ==
    IF ~file.exists THEN Caught("FileNotFoundError", output)
    ELSE IF RaisedByAnalyze(file, r) # None
    THEN Caught(RaisedByAnalyze(file, r), output)
    ELSE IF output.kind = "directory"
    THEN Caught("IsADirectoryError", output)
    ELSE IF r.pages_data = <<>>
    THEN Outcome(FALSE, JsonFile("file", r.pages_data),
                 <<"warning:", "no core component found">>)
    ELSE Outcome(TRUE, JsonFile("file", r.pages_data),
                 <<"done:", "VSDX structure saved to">>)

\* extract_vsdx_to_json(vsdx_file, output_json) on a file, with output at
\* the path of the JSON, given what the analysis of the file's parts yields
\* when every part it opens can be parsed.
extract_vsdx_to_json(file, output, r) ==
    IF ~file.exists THEN Caught("FileNotFoundError", output)
    ELSE IF RaisedByAnalyze(file, r) # None
    THEN Caught(RaisedByAnalyze(file, r), output)
    ELSE IF r.pages_data = <<>>
    THEN Outcome(FALSE, output, <<"warning:", "no core component found">>)
    ELSE IF output.kind = "directory"
    THEN Caught("IsADirectoryError", output)
    ELSE Outcome(TRUE, JsonFile("file", r.pages_data),
                 <<"done:", "VSDX structure saved to">>)

\* A JSON file left by an earlier run (a record no extraction writes: its
\* page keeps no shape).
StaleJson ==
    JsonFile("file", <<[page_index |-> 1, page_id |-> "1",
                        page_file |-> PagePart(1), shapes |-> <<>>]>>)

JsonFiles == {AbsentJson, StaleJson, JsonFile("directory", <<>>)}

InitBoundary ==
    /\ mode = "boundary"
    /\ pc = "call"
    /\ doc \in BoundaryFiles
    /\ shape_texts = EmptyDict
    /\ idx = 0
    /\ connects = <<>>
    /\ connected_shape_ids = {}
    /\ page_shapes = <<>>
    /\ shape_id_map = EmptyDict
    /\ pages_data = <<>>
    /\ master_shape_cache = EmptyDict
    /\ opens = EmptyDict
    /\ name_reads = EmptyDict
    /\ calls = 0
    /\ ret = NoRet
    /\ json_file \in JsonFiles
    /\ called = <<>>

\* What a call of extract_vsdx_to_json with analysis r and outcome o writes:
\* the JSON path, and the memory of the analysis when that ran to its end
\* (when it fails nothing has been cached: the containers here name at most
\* one master part).
Extracted(r, o) ==
    LET ok == doc.exists /\ RaisedByAnalyze(doc, r) = None
    IN  /\ json_file' = o.json
        /\ pages_data' = IF ok THEN r.pages_data ELSE pages_data
        /\ master_shape_cache' = IF ok THEN r.cache ELSE master_shape_cache
        /\ opens' = IF ok THEN r.opens ELSE opens
        /\ shape_texts' = IF ok THEN extract_shape_texts(doc) ELSE shape_texts

\* One call of extract_vsdx_to_json.
ExtractVsdxToJson ==
    /\ mode = "boundary" /\ pc = "call"
    /\ \E r \in {analyze_vsdx_structure_with_geometry(
                      doc, master_shape_cache, opens)} :
          \E o \in {extract_vsdx_to_json(doc, json_file, r)} :
             /\ Extracted(r, o)
             /\ ret' = o
    /\ calls' = calls + 1
    /\ pc' = "returned"
    /\ UNCHANGED <<mode, doc, idx, connects, connected_shape_ids, page_shapes,
                   shape_id_map, name_reads, called>>

NextBoundary == ExtractVsdxToJson

SpecBoundary == InitBoundary /\ [][NextBoundary]_vars

-----------------------------------------------------------------------------
(* The command line: main() of extract_vsdx.py                             *)

\* args after parse_args: the three paths (None when not given) and the two
\* flags.
Args(vsdx, json, output_dir, extract_only, visualize_only) ==
    [vsdx |-> vsdx, json |-> json, output_dir |-> output_dir,
     extract_only |-> extract_only, visualize_only |-> visualize_only]

\* os.path.splitext(args.vsdx)[0] + "_structure.json"
DefaultJsonPath(vsdx) ==
    IF vsdx = "d/in.vsdx" THEN "d/in_structure.json" ELSE None

\* os.path.dirname(json_file): empty for a bare file name.
DirName(path) ==
    CASE path = "d/out.json"          -> "d"
      [] path = "d/in_structure.json" -> "d"
      [] path = "out.json"            -> ""

\* The default of args.json: set when no JSON path was given and a VSDX
\* path was.
WithDefaultJson(args) ==
    IF args.json = None /\ args.vsdx # None
    THEN [args EXCEPT !.json = DefaultJsonPath(args.vsdx)]
    ELSE args

ArgLists ==
    {Args(v, j, o, e, z) :
        v \in {None, "d/in.vsdx"}, j \in {None, "out.json", "d/out.json"},
        o \in {None, "png"}, e \in BOOLEAN, z \in BOOLEAN}

\* What may be at args.vsdx: nothing, a file that is no archive, or a
\* container with one page that keeps a shape or not, whose page part
\* parses or not.
MainFiles ==
    {AbsentFile, NotAnArchive} \cup
    {File(TRUE, TRUE, <<Page(None, shapes, <<>>)>>, Masters, bad) :
        shapes \in {<<>>, <<ShapeElem(0, "1", "relay")>>,
                    <<ShapeElem(0, "1", "legal")>>},
        bad \in {{}, {PagePart(1)}}}

\* What main() hands back, and the args it runs with.
MainRet(args, returned) == [fn |-> "main", args |-> args, returned |-> returned]

\* One call made by main(), with the value it returned.
Call(fn, returned) == [fn |-> fn, returned |-> returned]

\* visualize_from_json(json_file, output_dir), json being what is at the
\* path json_file: False when nothing is there (FileNotFoundError), when
\* the output directory, by default the directory of json_file, is the
\* empty path (os.makedirs raises on it) or when what is there cannot be
\* opened as a file; True when the two drawings were made from it.
visualize_from_json(json_file_path, json, output_dir) ==
    /\ json.kind # "absent"
    /\ (IF output_dir = None THEN DirName(json_file_path) ELSE output_dir) # ""
    /\ json.kind = "file"

InitMain ==
    /\ mode = "main"
    /\ pc = "main"
    /\ \E args \in ArgLists :
          /\ ret = MainRet(WithDefaultJson(args), FALSE)
          /\ doc \in IF args.vsdx = None THEN {AbsentFile} ELSE MainFiles
          /\ json_file \in IF WithDefaultJson(args).json = None
                           THEN {AbsentJson} ELSE JsonFiles
    /\ shape_texts = EmptyDict
    /\ idx = 0
    /\ connects = <<>>
    /\ connected_shape_ids = {}
    /\ page_shapes = <<>>
    /\ shape_id_map = EmptyDict
    /\ pages_data = <<>>
    /\ master_shape_cache = EmptyDict
    /\ opens = EmptyDict
    /\ name_reads = EmptyDict
    /\ calls = 0
    /\ called = <<>>

\* main() returns value without calling anything further.
Return(value) ==
    /\ ret' = [ret EXCEPT !.returned = value]
    /\ pc' = "exit"

\* The call visualize_from_json(args.json, args.output_dir), whose value
\* main() returns.
Visualize ==
    /\ \E v \in {visualize_from_json(ret.args.json, json_file,
                                      ret.args.output_dir)} :
          /\ called' = Append(called, Call("visualize_from_json", v))
          /\ Return(v)
    /\ UNCHANGED <<json_file, pages_data, master_shape_cache, opens,
                   shape_texts>>

\* The call extract_vsdx_to_json(args.vsdx, args.json, args.debug); main()
\* returns its value, or goes on to visualize when told to and the call
\* returned True.
Extract(thenVisualize) ==
    \E r \in {analyze_vsdx_structure_with_geometry(
                   doc, master_shape_cache, opens)} :
       \E o \in {extract_vsdx_to_json(doc, json_file, r)} :
          /\ Extracted(r, o)
          /\ called' = Append(called, Call("extract_vsdx_to_json", o.returned))
          /\ IF thenVisualize /\ o.returned
             THEN pc' = "visualize" /\ ret' = ret
             ELSE Return(o.returned)

\* No call: main() prints that a path is missing and returns False.
MissingPath ==
    /\ Return(FALSE)
    /\ UNCHANGED <<json_file, called, pages_data, master_shape_cache, opens,
                   shape_texts>>

\* if args.visualize_only: visualize only.
MainVisualizeOnly ==
    /\ mode = "main" /\ pc = "main"
    /\ ret.args.visualize_only
    /\ IF ret.args.json = None THEN MissingPath ELSE Visualize
    /\ UNCHANGED <<mode, doc, idx, connects, connected_shape_ids, page_shapes,
                   shape_id_map, name_reads, calls>>

\* elif args.extract_only: extract only.
MainExtractOnly ==
    /\ mode = "main" /\ pc = "main"
    /\ ~ret.args.visualize_only /\ ret.args.extract_only
    /\ IF ret.args.vsdx = None THEN MissingPath ELSE Extract(FALSE)
    /\ UNCHANGED <<mode, doc, idx, connects, connected_shape_ids, page_shapes,
                   shape_id_map, name_reads, calls>>

\* else: extract first.
MainExtract ==
    /\ mode = "main" /\ pc = "main"
    /\ ~ret.args.visualize_only /\ ~ret.args.extract_only
    /\ IF ret.args.vsdx = None THEN MissingPath ELSE Extract(TRUE)
    /\ UNCHANGED <<mode, doc, idx, connects, connected_shape_ids, page_shapes,
                   shape_id_map, name_reads, calls>>

\* ... then visualize, when the extraction returned True.
MainVisualize ==
    /\ mode = "main" /\ pc = "visualize"
    /\ Visualize
    /\ UNCHANGED <<mode, doc, idx, connects, connected_shape_ids, page_shapes,
                   shape_id_map, name_reads, calls>>

NextMain ==
    \/ MainVisualizeOnly
    \/ MainExtractOnly
    \/ MainExtract
    \/ MainVisualize

SpecMain == InitMain /\ [][NextMain]_vars

-----------------------------------------------------------------------------
(* extract_shape_properties of the main module, on one shape element       *)

\* A custom property element: prop.get('Name', ''), prop.get('Label', '')
\* and the text of its v:Value ('' when there is none or it is empty).
Prop(name, label, value) == [Name |-> name, Label |-> label, Value |-> value]

\* The first loop: every cell with a non-empty V is stored under its name.
RECURSIVE CellProperties(_, _)
CellProperties(cells, properties) ==
    IF cells = <<>> THEN properties
    ELSE LET name  == Head(cells).N
             value == IF Head(cells).V = None THEN "" ELSE Head(cells).V
         IN  CellProperties(Tail(cells),
                            IF value # "" THEN Put(properties, name, value)
                            ELSE properties)

\* if name and value: properties[name] = value
InsertName(properties, prop) ==
    IF prop.Name # "" /\ prop.Value # ""
    THEN Put(properties, prop.Name, prop.Value) ELSE properties

\* if label and value and label != name: properties[label] = value
InsertLabel(properties, prop) ==
    IF prop.Label # "" /\ prop.Value # "" /\ prop.Label # prop.Name
    THEN Put(properties, prop.Label, prop.Value) ELSE properties

\* The second loop, over the custom properties in document order.
RECURSIVE PropProperties(_, _)
PropProperties(props, properties) ==
    IF props = <<>> THEN properties
    ELSE PropProperties(Tail(props),
                        InsertLabel(InsertName(properties, Head(props)),
                                    Head(props)))

\* extract_shape_properties(shape_elem), given the v:Cell and the v:Prop
\* elements found inside the shape.
extract_shape_properties(cells, props) ==
    PropProperties(props, CellProperties(cells, EmptyDict))

\* Bound on the number of custom properties of the shape under test.
MaxProps == 2

\* The custom properties explored: internal name and label absent or one of
\* two keys, one of which is also a cell name; value empty or one of two.
PropElems ==
    {Prop(n, l, v) : n \in {"", "A", "Width"}, l \in {"", "A", "Width"},
                     v \in {"", "x", "y"}}

PropLists == UNION {[1..n -> PropElems] : n \in 0..MaxProps}

\* The shape elements explored: a Width cell with a value, without one, or
\* no cell, and a list of custom properties.
PropertyShapes ==
    {[cells |-> c, props |-> ps] :
        c \in {<<>>, <<Cell("Width", "1")>>, <<Cell("Width", None)>>},
        ps \in PropLists}

InitProperties ==
    /\ mode = "properties"
    /\ pc = "call"
    /\ doc \in PropertyShapes
    /\ shape_texts = EmptyDict
    /\ idx = 0
    /\ connects = <<>>
    /\ connected_shape_ids = {}
    /\ page_shapes = <<>>
    /\ shape_id_map = EmptyDict
    /\ pages_data = <<>>
    /\ master_shape_cache = EmptyDict
    /\ opens = EmptyDict
    /\ name_reads = EmptyDict
    /\ calls = 0
    /\ ret = NoRet
    /\ json_file = AbsentJson
    /\ called = <<>>

\* extract_shape_properties(shape_elem) on the shape under test.
CallExtractShapeProperties ==
    /\ mode = "properties" /\ pc = "call"
    /\ ret' = [fn |-> "extract_shape_properties",
               properties |-> extract_shape_properties(doc.cells, doc.props)]
    /\ calls' = calls + 1
    /\ pc' = "returned"
    /\ UNCHANGED <<mode, doc, analyzeVars, master_shape_cache, opens,
                   name_reads>>
    /\ UNCHANGED fileVars

NextProperties == CallExtractShapeProperties

SpecProperties == InitProperties /\ [][NextProperties]_vars

-----------------------------------------------------------------------------
(* Pages with connection declarations inside shapes as well as in the      *)
(* page's Connects container                                               *)

\* What a shape may hold of connections: nothing, or one Connect element
\* between the two shapes of the page, bare or inside a v:Connects
\* container of its own.
EmbeddedConnects ==
    {[connects |-> <<>>, wrapped |-> FALSE]} \cup
    {[connects |-> <<Edge(f, t)>>, wrapped |-> w] :
        f \in {"1", "2"}, t \in {"1", "2"}, w \in BOOLEAN}

\* Two kept shapes, the second beside the first or nested in it, each with
\* its embedded connections, and the page's own Connects container.
EdgeDocuments ==
    {[pages |-> <<Page(None,
                       <<[ShapeElem(0, "1", "relay") EXCEPT
                            !.connects = e1.connects, !.wrapped = e1.wrapped],
                         [ShapeElem(p, "2", "relay") EXCEPT
                            !.connects = e2.connects, !.wrapped = e2.wrapped]>>,
                       cs)>>,
      masters |-> Masters] :
        p \in {0, 1}, e1 \in EmbeddedConnects, e2 \in EmbeddedConnects,
        cs \in UNION {EdgeLists(n) : n \in 0..MaxConnects}}

InitEdges ==
    /\ mode = "analyze"
    /\ pc = "start"
    /\ doc \in EdgeDocuments
    /\ shape_texts = EmptyDict
    /\ idx = 0
    /\ connects = <<>>
    /\ connected_shape_ids = {}
    /\ page_shapes = <<>>
    /\ shape_id_map = EmptyDict
    /\ pages_data = <<>>
    /\ master_shape_cache = EmptyDict
    /\ opens = EmptyDict
    /\ name_reads = EmptyDict
    /\ calls = 0
    /\ ret = NoRet
    /\ json_file = AbsentJson
    /\ called = <<>>

SpecEdges == InitEdges /\ [][Next]_vars

-----------------------------------------------------------------------------
(* Containers with several parts: the listing of the archive, the pages    *)
(* index beside the pages, pages that keep a shape and pages that do not   *)

\* Bound on the number of pages of a container.
MaxPages == 2

\* visio/pages/pages.xml, the index of the pages: its root is a Pages
\* element with no ID attribute, no v:Shapes and no v:Connects.
PagesIndexPart == <<"visio/pages/page", "s", ".xml">>

DocumentPart == <<"visio/", "document", ".xml">>

PagesRelsPart == <<"visio/pages/", "_rels/pages.xml", ".rels">>

\* The parts that hold a page.
PageDocumentParts == {PagePart(k) : k \in 1..MaxPages}

\* f.startswith('visio/pages/page') and f.endswith('.xml')
IsPageFile(f) == Head(f) = "visio/pages/page" /\ f[Len(f)] = ".xml"

\* page_files = [f for f in zf.namelist() if ...]
page_files(namelist) == SelectSeq(namelist, IsPageFile)

\* A line: Type Line with a line pattern, no name, no text, no connection
\* point (its label is ID:<id>).
LineShape(id) ==
    [ShapeElem(0, id, "bare_group") EXCEPT
        !.Type = "Line", !.cells = <<Cell("LinePattern", "1")>>]

\* What a page may hold: nothing, a relay, the copyright block, a line, or
\* a line that the page's Connects container names; its root with an ID
\* attribute or without.
PageContents ==
    {Page(id, shapes, <<>>) :
        id \in {None, "7"},
        shapes \in {<<>>, <<ShapeElem(0, "1", "relay")>>,
                    <<ShapeElem(0, "1", "legal")>>, <<LineShape("2")>>}}
    \cup {Page(None, <<LineShape("2")>>, <<Edge("2", AbsentId)>>)}

\* The orders in which an archive may list its pages and the pages index.
PageListings ==
    {l \in UNION {[1..n -> PageDocumentParts \cup {PagesIndexPart}] :
                     n \in 0..(MaxPages + 1)} :
        \A a, b \in DOMAIN l : l[a] = l[b] => a = b}

\* zf.open(name) of a listed part, parsed.
PartXml(f, contents) ==
    IF f = PagesIndexPart
    THEN [Page(None, <<>>, <<>>) EXCEPT !.file = f]
    ELSE [contents[f] EXCEPT !.file = f]

\* A container: its listing (zf.namelist()) and, in pages, the parsed parts
\* that the loops over page_files visit, in that order.
Container(listing, contents) ==
    LET namelist == <<DocumentPart>> \o listing \o <<PagesRelsPart>>
        files    == page_files(namelist)
    IN  [namelist |-> namelist,
         pages    |-> [k \in 1..Len(files) |-> PartXml(files[k], contents)],
         masters  |-> Masters]

InitPages ==
    /\ mode = "analyze"
    /\ pc = "start"
    /\ \E listing \in PageListings :
          \E contents \in [Range(listing) \cap PageDocumentParts ->
                              PageContents] :
             doc = Container(listing, contents)
    /\ shape_texts = EmptyDict
    /\ idx = 0
    /\ connects = <<>>
    /\ connected_shape_ids = {}
    /\ page_shapes = <<>>
    /\ shape_id_map = EmptyDict
    /\ pages_data = <<>>
    /\ master_shape_cache = EmptyDict
    /\ opens = EmptyDict
    /\ name_reads = EmptyDict
    /\ calls = 0
    /\ ret = NoRet
    /\ json_file = AbsentJson
    /\ called = <<>>

SpecPages == InitPages /\ [][Next]_vars

-----------------------------------------------------------------------------
(* Properties of the assembled pages *)

\* The nodes of page k's record, <<>> when the page produced none.
OutNodes(k) ==
    LET recs == SelectSeq(pages_data, LAMBDA r : r.page_index = k)
    IN  IF recs = <<>> THEN <<>> ELSE Head(recs).shapes

\* Element i of page k was made a node of the output.
IsNode(k, i) == \E n \in Range(OutNodes(k)) : n.elem = i

NodeIds(nodes) == {n.id : n \in Range(nodes)}

\* The last page's nodes and id map are those of a finished assembly.
Assembled == idx > 1 /\ pc \in {"connects", "done"}

\* The ids of the page's shape elements are pairwise distinct.
UniqueIds(page) ==
    \A i, j \in DOMAIN page.shapes :
        page.shapes[i].ID = page.shapes[j].ID => i = j

\* C2 (as stated): when extraction is done, every shape element whose id is
\* the from or to endpoint of a page-level edge is a node of its page's
\* output tree, at whatever depth it is declared.
C2_ConnectionOverride ==
    pc = "done" =>
        \A k \in DOMAIN doc.pages : \A i \in DOMAIN doc.pages[k].shapes :
            doc.pages[k].shapes[i].ID \in EndpointIds(doc.pages[k].connects)
                => IsNode(k, i)

\* C3 (as stated): when extraction is done, no node's connections list holds
\* an edge whose from id or to id is not the id of a node of the page.
C3_NoDanglingEdge ==
    pc = "done" =>
        \A r \in Range(pages_data) : \A n \in Range(r.shapes) :
            \A e \in Range(n.connections) :
                /\ e.from_shape \in NodeIds(r.shapes)
                /\ e.to_shape \in NodeIds(r.shapes)

\* The nodes of an assembled page have pairwise distinct ids and the id map
\* has one entry per node.
IdsAreUnique ==
    /\ \A a, b \in DOMAIN page_shapes :
           page_shapes[a].id = page_shapes[b].id => a = b
    /\ Cardinality(DOMAIN shape_id_map) = Len(page_shapes)

\* C5 (as stated): for every page assembled, no two nodes of its tree share
\* an id and the id index has as many entries as the tree has nodes.
C5_IdsUniqueAlways == Assembled => IdsAreUnique

\* C5 (amended): that holds for every page whose shape elements carry
\* pairwise distinct ids in the source document; the extractor takes ids as
\* they come and makes one node per element it keeps.
C5_IdsUniqueWhenSourceIdsAre ==
    (Assembled /\ UniqueIds(doc.pages[idx - 1])) => IdsAreUnique

\* A page with distinct source ids was assembled into a tree with a nested
\* node.
C5_Witness ==
    /\ Assembled /\ UniqueIds(doc.pages[idx - 1])
    /\ \E a \in DOMAIN page_shapes : page_shapes[a].parent # 0

\* The outcome the group scenario names: one page record, one top-level node
\* (the group, element 1), exactly the two children under it, and the first
\* child's connections being exactly the edge child1 -> child2.
ScenarioOutcome ==
    /\ Len(pages_data) = 1
    /\ LET nodes == pages_data[1].shapes
       IN  /\ Len(nodes) = 3
           /\ nodes[1].elem = 1 /\ nodes[1].id = "1" /\ nodes[1].parent = 0
           /\ nodes[2].elem = 2 /\ nodes[2].id = "2" /\ nodes[2].parent = 1
           /\ nodes[3].elem = 3 /\ nodes[3].id = "3" /\ nodes[3].parent = 1
           /\ nodes[2].connections = <<Edge("2", "3")>>

GroupIsNamed ==
    LET g == doc.pages[1].shapes[1]
    IN  g.NameU # <<None>> /\ ~MatchesExcludePattern(g.NameU)

HasLegalText(page, i) ==
    page.shapes[i].text.present /\ Strip(page.shapes[i].text.pieces) = LegalText

\* C7 (as stated): when extraction is done, no shape element whose text is
\* the copyright line is a node of the output.
C7_LegalNowhere ==
    pc = "done" =>
        \A k \in DOMAIN doc.pages : \A i \in DOMAIN doc.pages[k].shapes :
            HasLegalText(doc.pages[k], i) => ~IsNode(k, i)

\* The shapes the classifier's name rule decides: top-level, not a Dynamic
\* Connector, not an endpoint of an edge of the page's Connects container,
\* and still labelled with the copyright text in the text index.
LegalAndDecidedByName(k, i) ==
    LET page == doc.pages[k]
    IN  /\ HasLegalText(page, i)
        /\ page.shapes[i].parent = 0
        /\ page.shapes[i].Type # "Dynamic Connector"
        /\ page.shapes[i].ID \notin EndpointIds(ConnectsRoot(page))
        /\ Get(shape_texts, page.shapes[i].ID, <<>>) = LegalText

\* C7 (amended): a top-level shape with the copyright text is no node of the
\* output, whatever its geometry and connection points, provided it is not a
\* Dynamic Connector, its id is no endpoint of an edge of the page's
\* Connects container, and the text index still holds that text for its id.
C7_LegalTopLevelExcluded ==
    pc = "done" =>
        \A k \in DOMAIN doc.pages : \A i \in DOMAIN doc.pages[k].shapes :
            LegalAndDecidedByName(k, i) => ~IsNode(k, i)

\* A page that was output although it holds such a shape, which has four
\* valid geometry cells and a connection point.
C7_Witness ==
    /\ pc = "done" /\ pages_data # <<>>
    /\ \E i \in DOMAIN doc.pages[1].shapes :
          /\ LegalAndDecidedByName(1, i)
          /\ has_valid_geometry(doc.pages[1], i)
          /\ has_connection_points(doc.pages[1], i)
          /\ ~IsNode(1, i)

-----------------------------------------------------------------------------
(* Properties of the geometry helpers *)

\* What the reader found in the shape element under test: its geometry
\* cells as a geometry, '?' where the element supplies nothing.
OwnGeometry ==
    GeometryFrom(StringCells(FindAllCells(doc.pages[1], 1), GeometryCells,
                             EmptyDict))

\* What the master of the shape under test defines, '?' throughout when the
\* shape names no master or the container holds no such part.
MasterCellsOf(master_id) ==
    IF master_id \in DOMAIN doc.masters
    THEN GeometryFrom(StringCells(FindAllCells(doc.masters[master_id], 1),
                                  GeometryCells, EmptyDict))
    ELSE UnknownGeometry

\* The geometry is the shape's own, field by field, with only the unknown
\* fields taken from the master.
FieldByField(geometry, master_id) ==
    \A key \in PositionKeys :
        /\ OwnGeometry[key] # Unknown => geometry[key] = OwnGeometry[key]
        /\ OwnGeometry[key] = Unknown =>
               geometry[key] \in {Unknown, MasterCellsOf(master_id)[key]}

\* C1 (as stated): whichever geometry reader is called on a shape, every
\* field the shape supplies keeps the shape's value and only fields the
\* shape leaves unknown come from the master.
C1_FieldByFieldFallback ==
    ret.fn \in {"get_shape_geometry", "extract_shape_geometry"} =>
        FieldByField(ret.geometry, ret.master)

\* C22 (as stated): load_master_geometry on a present master part returns,
\* for each of x, y, width and height on its own, the master's value when
\* the master's shape defines the cell and '?' otherwise (a master with
\* Width and Height but no PinX or PinY still yields its width and height);
\* on an absent master part it returns '?' in all four fields.
C22_MasterFieldsIndependent ==
    ret.fn = "load_master_geometry" =>
        \A key \in PositionKeys :
            ret.geometry[key] = MasterCellsOf(ret.master)[key]

\* C4 (as stated): within one extraction no master part is opened and
\* parsed by load_master_geometry more than once, whatever cells it defines.
C4_ParsedAtMostOnce == \A m \in DOMAIN opens : opens[m] <= 1

-----------------------------------------------------------------------------
(* Properties of the classifier *)

\* The shape under test, on page 1.
Tested == doc.pages[1].shapes[1]

\* C8 (as stated): the verdict of is_core_component, in either file, is the
\* same for two shapes that differ only in their PinX, PinY, Width and
\* Height cells.
C8_VerdictIgnoresSize == pc = "done" => ret.verdicts[1] = ret.verdicts[2]

\* C9 (as stated): is_core_component, in either file, accepts every shape of
\* kind Dynamic Connector.
C9_ConnectorAccepted ==
    (pc = "done" /\ Tested.Type = "Dynamic Connector") => ret.verdicts[1]

\* Rules 1 to 3 leave the shape under test undecided.
UndecidedByRules1to3 ==
    /\ TypeOf(Tested, "") \notin ExcludedTypes
    /\ Tested.Type # "Dynamic Connector"
    /\ ~MatchesExcludePattern(Get(shape_texts, Tested.ID, <<>>))

\* Rule 4 as the specification words it: a Group with a child in its
\* container, or another shape with a connection point or non-empty text.
Rule4 ==
    IF Tested.Type = "Group" THEN ChildShapes(doc.pages[1], 1) # <<>>
    ELSE \/ CountConnectionPoints(doc.pages[1], 1) >= 1
         \/ TextOf(doc.pages[1], 1) # <<>>

\* C10 (as stated): for a shape rules 1 to 3 leave undecided, the script's
\* is_core_component accepts exactly when rule 4 says so.
C10_Rule4 ==
    (pc = "done" /\ ret.fn = "script" /\ UndecidedByRules1to3) =>
        (ret.verdicts[1] <=> Rule4)

-----------------------------------------------------------------------------
(* Properties of the geometry a node reports *)

\* A field value that is a number (a string float() accepts) or the unknown
\* sentinel.
NumberOrUnknown(v) == v = Unknown \/ FloatOf(v).ok

\* C11 (as stated): the x and y of the geometry a reader returns for a
\* shape, which is the position of the shape's node, are each a valid number
\* or '?', never an empty or non-numeric string.
C11_PositionNumberOrUnknown ==
    ret.fn \in {"get_shape_geometry", "extract_shape_geometry",
                "parse_shape_recursive"} =>
        /\ NumberOrUnknown(ret.geometry.x)
        /\ NumberOrUnknown(ret.geometry.y)

\* The names of the cells found anywhere inside the shape under test, and
\* of those its master part defines.
CellNamesOfShape == {c.N : c \in Range(FindAllCells(doc.pages[1], 1))}

CellNamesOfMaster(master_id) ==
    IF Truthy(master_id) /\ master_id \in DOMAIN doc.masters
    THEN {c.N : c \in Range(FindAllCells(doc.masters[master_id], 1))}
    ELSE {}

\* The cell each numeric geometry field is read from.
FieldCell ==
    [x |-> "PinX", y |-> "PinY", width |-> "Width", height |-> "Height",
     angle |-> "Angle", flip_x |-> "FlipX", flip_y |-> "FlipY"]

\* C12 (as stated): every numeric field of the geometry of the main
\* module's reader whose cell neither the shape nor its master supplies is
\* reported as '?'.
C12_UnsuppliedIsUnknown ==
    ret.fn \in {"extract_shape_geometry", "parse_shape_recursive"} =>
        \A key \in DOMAIN FieldCell :
            FieldCell[key] \notin
                    CellNamesOfShape \cup CellNamesOfMaster(ret.master)
                => ret.geometry[key] = Unknown

\* The shape element under test has none of the four geometry cells as its
\* own.
NoLocalGeometry ==
    \A c \in Range(doc.pages[1].shapes[1].cells) : c.N \notin GeometryCells

\* The master defines all four geometry cells.
MasterDefinesAll(master_id) ==
    /\ Truthy(master_id) /\ master_id \in DOMAIN doc.masters
    /\ \A key \in PositionKeys : MasterCellsOf(master_id)[key] # Unknown

\* C13 (as stated): a shape with no geometry cells of its own whose master
\* defines all four gets, from either reader, exactly the master's x, y,
\* width and height.
C13_MasterGeometryTaken ==
    (/\ ret.fn \in {"get_shape_geometry", "extract_shape_geometry"}
     /\ NoLocalGeometry
     /\ MasterDefinesAll(ret.master)) =>
        \A key \in PositionKeys :
            ret.geometry[key] = MasterCellsOf(ret.master)[key]

-----------------------------------------------------------------------------
(* Properties of a session of extractions *)

\* What extracting document d alone gives: the call entered with an empty
\* cache.
ExtractedAlone(d) ==
    analyze_vsdx_structure_with_geometry(d, EmptyDict, EmptyDict).pages_data

\* C14 (as stated): the result of every extraction of a session is the
\* result of extracting its document alone, whatever was extracted before.
C14_ResultDependsOnDocumentOnly ==
    mode = "session" =>
        \A k \in DOMAIN ret.results :
            ret.results[k] = ExtractedAlone(ret.files[k])

-----------------------------------------------------------------------------
(* Properties of the boundary *)

\* The call at the boundary has returned.
BoundaryReturned == mode = "boundary" /\ pc = "returned"

\* The file is a container all of whose parts parse, and no page of it
\* keeps a shape.
ZeroRetainedPages ==
    /\ doc.exists /\ doc.archive /\ doc.malformed = {}
    /\ ExtractedAlone(doc) = <<>>

\* C15 (as stated): a document that yields no retained page is reported as
\* a success: extract_vsdx_to_json returns True for it, where every failed
\* extraction returns False.
C15_EmptyIsSuccess == (BoundaryReturned /\ ZeroRetainedPages) => ret.returned

\* The kind of failure an outcome reports, going by the message printed;
\* None for an outcome that reports no failure.
FailureKind(outcome) ==
    IF outcome.returned \/ outcome.printed[1] # "error:" THEN None
    ELSE IF outcome.printed[2] = MessageOf("FileNotFoundError")
    THEN "not found"
    ELSE "format"

\* C16 (as stated): an absent path is reported as a not-found failure, a
\* file that is no archive and a container with a part of malformed XML as
\* format failures, and the three reports differ from one another.
C16_ThreeDistinctFailures ==
    BoundaryReturned =>
        /\ ~doc.exists => FailureKind(ret) = "not found"
        /\ (doc.exists /\ ~doc.archive) =>
               /\ FailureKind(ret) = "format"
               /\ ret.printed[2] = MessageOf("BadZipFile")
        /\ (doc.exists /\ doc.archive /\ doc.malformed # {}) =>
               /\ FailureKind(ret) = "format"
               /\ ret.printed[2] = MessageOf("ParseError")

-----------------------------------------------------------------------------
(* Properties of the output file and of the command line *)

\* What the analysis of the file at hand yields when every part it opens
\* can be parsed.
Analysis == analyze_vsdx_structure_with_geometry(doc, master_shape_cache, opens)

\* The extraction cannot produce a JSON: the input is missing, the analysis
\* raises, or its result is empty.
NothingToWrite ==
    \/ ~doc.exists
    \/ RaisedByAnalyze(doc, Analysis) # None
    \/ Analysis.pages_data = <<>>

\* C25: a call of extract_vsdx_to_json always returns a value; when the
\* input file is missing, the analysis raises or the result is empty it
\* returns False and what is at the path of the output JSON stays as it
\* was (not created, not overwritten); it returns True only with the
\* result written to the JSON file, and the result is then not empty.
C25_OutputUntouchedUnlessWritten ==
    [][(mode = "boundary" /\ pc = "call" /\ pc' = "returned") =>
           /\ ret'.fn = "extract_vsdx_to_json" /\ ret'.returned \in BOOLEAN
           /\ NothingToWrite => (~ret'.returned /\ json_file' = json_file)
           /\ ret'.returned =>
                  /\ json_file' = JsonFile("file", Analysis.pages_data)
                  /\ Analysis.pages_data # <<>>]_vars

\* An extraction of a container with nothing to write returned False and
\* the JSON file of an earlier run is still what it was.
C25_Witness ==
    /\ BoundaryReturned /\ doc.exists /\ doc.archive
    /\ ~ret.returned /\ json_file = StaleJson

\* main() called visualize_from_json.
Visualized == \E k \in DOMAIN called : called[k].fn = "visualize_from_json"

\* main() called extract_vsdx_to_json.
CalledExtract == \E k \in DOMAIN called : called[k].fn = "extract_vsdx_to_json"

\* C24 (as stated): with neither flag, visualize_from_json is called only
\* right after extract_vsdx_to_json has returned True; with --extract-only
\* visualize_from_json is never called; with --visualize-only
\* extract_vsdx_to_json is never called.
C24_VisualizeOnlyAfterSuccess ==
    mode = "main" =>
        /\ (~ret.args.extract_only /\ ~ret.args.visualize_only) =>
               \A k \in DOMAIN called :
                   called[k].fn = "visualize_from_json" =>
                       /\ k > 1
                       /\ called[k - 1] = Call("extract_vsdx_to_json", TRUE)
        /\ ret.args.extract_only => ~Visualized
        /\ ret.args.visualize_only => ~CalledExtract

-----------------------------------------------------------------------------
(* Properties of the text index *)

\* The label the resolution rule gives element i: the trimmed text of its
\* own text element when non-empty, else its NameU, else ID:<id>.
OwnLabel(page, i) ==
    LET shape == page.shapes[i]
        text  == IF shape.text.present THEN Strip(shape.text.pieces)
                 ELSE <<>>
    IN  IF text # <<>> THEN text
        ELSE IF shape.NameU # <<None>> THEN shape.NameU
        ELSE IdLabel(shape.ID)

\* No two shape elements of the document carry the same id.
DocumentIdsUnique ==
    \A k, l \in DOMAIN doc.pages :
        \A i \in DOMAIN doc.pages[k].shapes :
            \A j \in DOMAIN doc.pages[l].shapes :
                doc.pages[k].shapes[i].ID = doc.pages[l].shapes[j].ID
                    => (k = l /\ i = j)

\* C17 (as stated): once the text index is built, it maps the id of every
\* shape element, at any depth, to the label resolved from the element's
\* own text, NameU and id (ids being distinct, so that no entry is
\* overwritten); a nested shape's text is never the label of its ancestor.
C17_LabelFromOwnText ==
    (mode = "analyze" /\ pc # "start" /\ DocumentIdsUnique) =>
        \A k \in DOMAIN doc.pages : \A i \in DOMAIN doc.pages[k].shapes :
            Get(shape_texts, doc.pages[k].shapes[i].ID, None)
                = OwnLabel(doc.pages[k], i)

-----------------------------------------------------------------------------
(* Properties of extract_shape_properties *)

\* The custom properties of the shape under test with their labels taken
\* away.
WithoutLabels(props) == [j \in DOMAIN props |-> [props[j] EXCEPT !.Label = ""]]

\* What the cell names and the internal names alone set: the entries no
\* label insertion may replace.
SetByNames == extract_shape_properties(doc.cells, WithoutLabels(doc.props))

\* C18 (as stated): every key that a cell name or a property's internal
\* name sets holds, after extraction, the value it was given under that
\* name; no insertion under a label has replaced it.
C18_LabelNeverOverwrites ==
    ret.fn = "extract_shape_properties" =>
        \A key \in DOMAIN SetByNames :
            ret.properties[key] = SetByNames[key]

-----------------------------------------------------------------------------
(* Properties of the edges of the output *)

\* C19 (as stated): when extraction is done, every edge in the connections
\* list of a node has that node's id as its from endpoint, whether it came
\* from the page's Connects container or from a declaration inside a shape.
C19_EdgesLeaveTheirNode ==
    pc = "done" =>
        \A r \in Range(pages_data) : \A n \in Range(r.shapes) :
            \A e \in Range(n.connections) : e.from_shape = n.id

\* C20 (as stated): when extraction is done, no node's connections list
\* holds the same edge (from, to, from cell, to cell) twice, also when the
\* edge is declared both in the page's container and inside a shape.
C20_NoEdgeTwice ==
    pc = "done" =>
        \A r \in Range(pages_data) : \A n \in Range(r.shapes) :
            \A a, b \in DOMAIN n.connections :
                n.connections[a] = n.connections[b] => a = b

-----------------------------------------------------------------------------
(* The shape of the tree *)

\* The elements that the children of node a were built from, in the order
\* of the nodes (a = 0: the top-level nodes).
KidsOf(nodes, a) ==
    LET ks == SelectSeq([k \in 1..Len(nodes) |-> k],
                        LAMBDA k : nodes[k].parent = a)
    IN  [j \in 1..Len(ks) |-> nodes[ks[j]].elem]

\* The top-level shapes of a page that the page loop keeps, in document
\* order.
KeptTopLevel(page) ==
    SelectSeq(TopLevelShapes(page),
              LAMBDA i : is_core_with_connections(page, i, shape_texts,
                                                  connected_shape_ids))

-----------------------------------------------------------------------------
(* Which pages get a record *)

\* The test of extract_connectors for a connector: Type Line or Dynamic
\* connector, or a LinePattern, BeginArrow or EndArrow cell below the shape
\* whose value is not '0'.
IsConnectorShape(page, i) ==
    \/ TypeOf(page.shapes[i], "") \in {"Line", "Dynamic connector"}
    \/ \E c \in Range(FindAllCells(page, i)) :
          /\ c.N \in {"LinePattern", "BeginArrow", "EndArrow"}
          /\ (IF c.V = None THEN "0" ELSE c.V) # "0"

\* The connector shapes of a page, at any depth (root.findall('.//v:Shape')).
ConnectorsOf(page) ==
    {i \in 1..Len(page.shapes) : IsConnectorShape(page, i)}

\* The top-level shapes of a page that the page loop keeps.
RetainedOf(page) ==
    {i \in Range(TopLevelShapes(page)) :
        is_core_with_connections(page, i, shape_texts,
                                 EndpointIds(ConnectsRoot(page)))}

\* The records made from the part listed under name f.
RecordsOf(f) == {r \in Range(pages_data) : r.page_file = f}

\* C21 (as stated): a page with no retained shape and no connector has no
\* page record, every page record has a retained top-level shape or a
\* connector, and a page that has connector shapes has a record even when
\* it has no retained shape.
C21_RecordIffShapeOrConnector ==
    pc = "done" =>
        \A k \in DOMAIN doc.pages :
            LET page == doc.pages[k]
            IN  /\ (RetainedOf(page) = {} /\ ConnectorsOf(page) = {})
                       => RecordsOf(page.file) = {}
                /\ \A r \in RecordsOf(page.file) :
                       \/ \E n \in Range(r.shapes) : n.parent = 0
                       \/ ConnectorsOf(page) # {}
                /\ ConnectorsOf(page) # {} => RecordsOf(page.file) # {}

-----------------------------------------------------------------------------
(* Page numbering *)

\* The listed parts that hold a page, in the order of the listing.
ListedPages == SelectSeq(doc.namelist, LAMBDA f : f \in PageDocumentParts)

\* The 1-based position of part f among the listed pages.
PositionOf(f) == CHOOSE k \in DOMAIN ListedPages : ListedPages[k] = f

\* The page listed under name f.
PageAt(f) == CHOOSE page \in Range(doc.pages) : page.file = f

\* C26 (as stated): page_index is the 1-based position of the page part
\* among the page parts of the container's listing, dropped pages counted,
\* so the records' page_index increases strictly; page_id is the page's ID
\* attribute when it has one and the string form of page_index otherwise.
C26_PageNumbering ==
    pc = "done" =>
        \A j \in DOMAIN pages_data :
            LET r == pages_data[j]
            IN  /\ r.page_file \in PageDocumentParts
                /\ r.page_index = PositionOf(r.page_file)
                /\ j > 1 => pages_data[j - 1].page_index < r.page_index
                /\ r.page_id = IF PageAt(r.page_file).ID # None
                               THEN PageAt(r.page_file).ID
                               ELSE ToString(r.page_index)

=============================================================================
